---- MODULE Spec2Model ----
(***************************************************************************)
(* Model of scripts/status-effects.js (class StatusEffects): the shim that *)
(* places Convenient Effects into the host's status-effect catalog and     *)
(* overrides the token HUD's toggle, choice-list and icon-refresh hooks.   *)
(*                                                                         *)
(* JavaScript strings are sequences of one-character strings, so that      *)
(* startsWith, replace, toLowerCase and the < of the sort comparator are   *)
(* computed as the code computes them.  An object is a record; a property  *)
(* the object lacks is a field the record lacks.                           *)
(***************************************************************************)
EXTENDS Integers, Sequences, FiniteSets, TLC

VARIABLES
    settings,             \* this._settings: the three configured values
    CONFIG_statusEffects, \* CONFIG.statusEffects, the host's catalog
    original,             \* the catalog as it was before initialize()
    pc,                   \* the last method that ran ("constructed" at first)
    token,                \* the token of the call at hand
    args,                 \* the argument list of the call at hand
    event,                \* the UI event object as the last call left it
    toggleEffectCalls,    \* calls the last call made to effectInterface.toggleEffect
    wrapperCalls,         \* calls the last call made to the wrapped host function
    wrapperReturn,        \* what the wrapped host function returns when called
    returned,             \* the value the last call returned
    icons,                \* the HUD's status icon elements after the last call
    fault                 \* TRUE when the last call threw

vars == <<settings, CONFIG_statusEffects, original, pc, token, args, event,
          toggleEffectCalls, wrapperCalls, wrapperReturn, returned, icons, fault>>

-----------------------------------------------------------------------------
(* Bounds of the model *)

\* longest configured list of effect names
MaxNames == 3
\* most active effects on an actor
MaxActorEffects == 2
\* most icon references in a token document's own effect list
MaxDocEffects == 2
\* most icon elements in the HUD's status-effects container
MaxIcons == 2

-----------------------------------------------------------------------------
(* JavaScript strings *)

\* the value a missing return, property or lookup yields
Undefined == [undefined |-> TRUE]

\* null, where a string is expected: a one-token sequence no string equals
Null == <<"null">>

\* UTF-16 code unit of the characters the model's names are written in
CharCode(c) ==
    CASE c = " " -> 32
      [] c = ":" -> 58
      [] c = "A" -> 65
      [] c = "B" -> 66
      [] c = "a" -> 97
      [] c = "b" -> 98
      [] c = "z" -> 122
      [] OTHER -> 0

\* String.prototype.toLowerCase on one character
LowerChar(c) ==
    CASE c = "A" -> "a"
      [] c = "B" -> "b"
      [] OTHER -> c

toLowerCase(s) == [i \in 1..Len(s) |-> LowerChar(s[i])]

\* s < t on strings: the first differing code unit decides, a proper prefix is smaller
RECURSIVE StrLess(_, _)
StrLess(s, t) ==
    IF t = <<>> THEN FALSE
    ELSE IF s = <<>> THEN TRUE
    ELSE IF CharCode(Head(s)) # CharCode(Head(t))
         THEN CharCode(Head(s)) < CharCode(Head(t))
    ELSE StrLess(Tail(s), Tail(t))

\* String.prototype.startsWith
startsWith(s, p) ==
    /\ Len(p) <= Len(s)
    /\ SubSeq(s, 1, Len(p)) = p

\* position of the first occurrence of p in s, 0 when there is none
IndexOf(s, p) ==
    LET hits == {i \in 1..(Len(s) - Len(p) + 1) : SubSeq(s, i, i + Len(p) - 1) = p}
    IN  IF hits = {} THEN 0 ELSE CHOOSE i \in hits : \A j \in hits : i <= j

\* String.prototype.replace with a string pattern and '': drops the first occurrence
replaceWithEmpty(s, p) ==
    LET i == IndexOf(s, p)
    IN  IF i = 0 THEN s
        ELSE SubSeq(s, 1, i - 1) \o SubSeq(s, i + Len(p), Len(s))

\* the reserved prefix of the ids this module owns
Prefix == <<"C","o","n","v","e","n","i","e","n","t"," ","E","f","f","e","c","t",":"," ">>

-----------------------------------------------------------------------------
(* Collaborators *)

\* EffectHelpers.getId(name)
getId(name) == Prefix \o name

\* the effects the external module defines: name, and the fields toObject() serializes
Effects ==
    { [name |-> <<"a","b">>, fields |-> [name |-> <<"a","b">>, icon |-> <<"p">>]],
      [name |-> <<"A","b">>, fields |-> [name |-> <<"A","b">>, icon |-> <<"p">>]],
      [name |-> <<"B">>,
       fields |-> [id |-> <<"x">>, name |-> <<"B">>, icon |-> <<"q">>]] }

\* a configured name that no effect carries
UnknownName == <<"z">>

EffectNames == {e.name : e \in Effects} \cup {UnknownName}

\* game.dfreds.effectInterface.findEffectByName(name)
findEffectByName(name) ==
    IF \E e \in Effects : e.name = name
    THEN CHOOSE e \in Effects : e.name = name
    ELSE Undefined

\* effect.toObject()
toObject(effect) == effect.fields

\* truthiness of a looked-up effect: undefined is falsy, an object truthy
Truthy(v) == "undefined" \notin DOMAIN v

\* { ...a, ...b }: every key of either, b's value where both have the key
ObjectSpread(a, b) ==
    [k \in DOMAIN a \cup DOMAIN b |-> IF k \in DOMAIN b THEN b[k] ELSE a[k]]

-----------------------------------------------------------------------------
(* _fetchStatusEffects *)

\* variant: the names compared as they are, without toLowerCase
compareNames_caseSensitive(a, b) ==
    IF StrLess(a.name, b.name) THEN -1
    ELSE IF StrLess(b.name, a.name) THEN 1
    ELSE 0

\* the sort comparator of _fetchStatusEffects
compareNames(a, b) ==
    LET nameA == toLowerCase(a.name)
        nameB == toLowerCase(b.name)
    IN  IF StrLess(nameA, nameB) THEN -1
        ELSE IF StrLess(nameB, nameA) THEN 1
        ELSE 0

\* x placed into the sorted sequence s behind every element it does not precede
RECURSIVE InsertStable(_, _)
InsertStable(s, x) ==
    IF s = <<>> THEN <<x>>
    ELSE IF compareNames(x, s[Len(s)]) < 0
         THEN Append(InsertStable(SubSeq(s, 1, Len(s) - 1), x), s[Len(s)])
    ELSE Append(s, x)

\* Array.prototype.sort with the comparator: a stable sort
RECURSIVE sort(_)
sort(s) ==
    IF s = <<>> THEN <<>>
    ELSE InsertStable(sort(SubSeq(s, 1, Len(s) - 1)), s[Len(s)])

\* the definition built from one effect: { id: getId(effect.name), ...effect.toObject() }
toDefinition(effect) == ObjectSpread([id |-> getId(effect.name)], toObject(effect))

fetchStatusEffects(s) ==
    LET names == s.statusEffectNames
        found == [i \in 1..Len(names) |-> findEffectByName(names[i])]
        kept == SelectSeq(found, Truthy)
        statusEffects == [i \in 1..Len(kept) |-> toDefinition(kept[i])]
    IN  IF s.statusEffectsSortOrder = "alphabetical"
        THEN sort(statusEffects)
        ELSE statusEffects

-----------------------------------------------------------------------------
(* Inputs *)

RECURSIVE SeqsUpTo(_, _)
SeqsUpTo(S, n) ==
    IF n = 0 THEN {<<>>}
    ELSE LET shorter == SeqsUpTo(S, n - 1)
         IN  shorter \cup {Append(s, x) : s \in shorter, x \in S}

Modes == {"replace", "add", "none"}
SortOrders == {"alphabetical", "unsorted"}

AllSettings ==
    [modifyStatusEffects : Modes,
     statusEffectNames : SeqsUpTo(EffectNames, MaxNames),
     statusEffectsSortOrder : SortOrders]

\* entries the host (or another add-on) put into the catalog before initialize()
Dead == [id |-> <<"d","e","a","d">>, name |-> <<"D","e","a","d">>, icon |-> <<"s">>]
HostAb == [id |-> getId(<<"a","b">>), name |-> <<"a","b">>, icon |-> <<"r">>]

HostCatalogs == {<<>>, <<Dead>>, <<Dead, HostAb>>}

NoEvent == [none |-> TRUE]

-----------------------------------------------------------------------------
(* initialize *)

\* variant: mode add puts the fetched effects in front of the catalog
initialize_prepend(s, catalog) ==
    IF s.modifyStatusEffects = "replace" THEN fetchStatusEffects(s)
    ELSE IF s.modifyStatusEffects = "add" THEN fetchStatusEffects(s) \o catalog
    ELSE catalog

\* the entries of s whose id no earlier entry has
RECURSIVE FirstOfEachId(_)
FirstOfEachId(s) ==
    IF s = <<>> THEN <<>>
    ELSE LET front == FirstOfEachId(SubSeq(s, 1, Len(s) - 1))
             last == s[Len(s)]
         IN  IF \E i \in 1..Len(front) : front[i].id = last.id
             THEN front
             ELSE Append(front, last)

\* variant: entries with an id seen before are discarded
initialize_dedup(s, catalog) ==
    IF s.modifyStatusEffects = "replace" THEN FirstOfEachId(fetchStatusEffects(s))
    ELSE IF s.modifyStatusEffects = "add"
         THEN FirstOfEachId(catalog \o fetchStatusEffects(s))
    ELSE catalog

\* CONFIG.statusEffects after initialize() under settings s
initialize(s, catalog) ==
    IF s.modifyStatusEffects = "replace" THEN fetchStatusEffects(s)
    ELSE IF s.modifyStatusEffects = "add" THEN catalog \o fetchStatusEffects(s)
    ELSE catalog

\* no handler has run yet
NoCalls ==
    /\ event = NoEvent
    /\ toggleEffectCalls = <<>>
    /\ wrapperCalls = <<>>
    /\ returned = Undefined
    /\ fault = FALSE

\* after construction: settings configured, the host's catalog in place
InitConstructed ==
    /\ settings \in AllSettings
    /\ CONFIG_statusEffects \in HostCatalogs
    /\ original = CONFIG_statusEffects
    /\ pc = "constructed"
    /\ token = Undefined
    /\ args = <<>>
    /\ wrapperReturn = Undefined
    /\ icons = <<>>
    /\ NoCalls

Initialize ==
    /\ pc = "constructed"
    /\ CONFIG_statusEffects' = initialize(settings, CONFIG_statusEffects)
    /\ pc' = "initialize"
    /\ UNCHANGED <<settings, original, token, args, event, toggleEffectCalls,
                   wrapperCalls, wrapperReturn, returned, icons, fault>>

\* a direct call of _fetchStatusEffects(), its result kept in returned
FetchStatusEffects ==
    /\ pc = "constructed"
    /\ returned' = fetchStatusEffects(settings)
    /\ pc' = "_fetchStatusEffects"
    /\ UNCHANGED <<settings, CONFIG_statusEffects, original, token, args, event,
                   toggleEffectCalls, wrapperCalls, wrapperReturn, icons, fault>>

NextInit == Initialize \/ FetchStatusEffects

SpecInit == InitConstructed /\ [][NextInit]_vars

-----------------------------------------------------------------------------
(* onToggleEffect *)

\* null where an object is expected
NullObject == [null |-> TRUE]

\* v?.p: undefined when v is undefined or null or lacks p
OptionalGet(v, p) == IF p \in DOMAIN v THEN v[p] ELSE "undefined"

\* variant: the prefix anywhere in the id (includes instead of startsWith)
isConvenientEffect_anywhere(statusEffectId) == IndexOf(statusEffectId, Prefix) # 0

\* statusEffectId.startsWith('Convenient Effect: ')
isConvenientEffect(statusEffectId) == startsWith(statusEffectId, Prefix)

\* statusEffectId.replace('Convenient Effect: ', '')
effectNameOf(statusEffectId) == replaceWithEmpty(statusEffectId, Prefix)

\* args.length > 1 && args[1]?.overlay, as the JavaScript value it evaluates to
overlayOf(a) ==
    IF Len(a) > 1 THEN OptionalGet(a[2], "overlay") ELSE "false"

\* what one call of onToggleEffect({ token, wrapper, args }) does
onToggleEffect(tk, a) ==
    LET ev == a[1]
        statusEffectId == ev.currentTarget.dataset.statusId
    IN  IF isConvenientEffect(statusEffectId)
        THEN LET suppressed == [ev EXCEPT !.defaultPrevented = TRUE,
                                          !.propagationStopped = TRUE]
             IN  IF "actor" \in DOMAIN tk
                 THEN [event |-> suppressed,
                       toggleEffectCalls |->
                           << [name |-> effectNameOf(statusEffectId),
                               options |-> [overlay |-> overlayOf(a),
                                            uuids |-> <<tk.actor.uuid>>]] >>,
                       wrapperCalls |-> <<>>,
                       fault |-> FALSE]
                 \* token.actor.uuid of a token without actor throws a TypeError
                 ELSE [event |-> suppressed, toggleEffectCalls |-> <<>>,
                       wrapperCalls |-> <<>>, fault |-> TRUE]
        ELSE [event |-> ev, toggleEffectCalls |-> <<>>,
              wrapperCalls |-> <<a>>, fault |-> FALSE]

\* the status ids of the icons a toggle event can come from
ToggleStatusIds ==
    { getId(<<"a","b">>), getId(<<"B">>), Prefix, Dead.id,
      getId(Prefix \o <<"B">>), <<"x">> \o getId(<<"a","b">>) }

UIEvent(statusId) ==
    [currentTarget |-> [dataset |-> [statusId |-> statusId]],
     defaultPrevented |-> FALSE, propagationStopped |-> FALSE]

\* the second argument of the host's toggle handler, when there is one
ToggleOptions ==
    { Undefined, NullObject, [active |-> "true"],
      [overlay |-> "false"], [overlay |-> "true"] }

ToggleArgs ==
    {<<UIEvent(id)>> : id \in ToggleStatusIds}
        \cup {<<UIEvent(id), o>> : id \in ToggleStatusIds, o \in ToggleOptions}

ToggleTokens ==
    { [document |-> [effects |-> <<>>]],
      [actor |-> [uuid |-> <<"u","1">>], document |-> [effects |-> <<>>]],
      [actor |-> [uuid |-> <<"u","2">>], document |-> [effects |-> <<>>]] }

\* after construction, for the HUD hooks: two effects that share an icon are configured,
\* and the catalog holds an entry of the first one's id already
Configured ==
    /\ settings \in [modifyStatusEffects : Modes,
                     statusEffectNames : {<< <<"a","b">>, <<"A","b">> >>},
                     statusEffectsSortOrder : {"unsorted"}]
    /\ CONFIG_statusEffects = <<Dead, HostAb>>
    /\ original = CONFIG_statusEffects
    /\ pc = "constructed"
    /\ NoCalls

\* the toggle event that the host will hand to onToggleEffect
InitToggle ==
    /\ Configured
    /\ token \in ToggleTokens
    /\ args \in ToggleArgs
    /\ wrapperReturn = Undefined
    /\ icons = <<>>

OnToggleEffect ==
    /\ pc = "initialize"
    /\ LET out == onToggleEffect(token, args)
       IN  /\ event' = out.event
           /\ toggleEffectCalls' = out.toggleEffectCalls
           /\ wrapperCalls' = out.wrapperCalls
           /\ fault' = out.fault
    /\ returned' = Undefined
    /\ pc' = "onToggleEffect"
    /\ UNCHANGED <<settings, CONFIG_statusEffects, original, token, args,
                   wrapperReturn, icons>>

\* the HUD hooks run once initialize() has
NextToggle == Initialize \/ OnToggleEffect

SpecToggle == InitToggle /\ [][NextToggle]_vars

-----------------------------------------------------------------------------
(* getStatusEffectChoices *)

\* 'undefined', the property key that undefined is converted to
StrUndefined == <<"u","n","d","e","f","i","n","e","d">>

ActiveTag == <<"a","c","t","i","v","e">>
OverlayTag == <<"o","v","e","r","l","a","y">>

\* an object without properties
EmptyObject == <<>>

\* a string among objects: e.id and e.icon of a string are undefined
StringValue(s) == [str |-> s]

\* obj[e.p] and (e.p in obj) look up the key that e.p converts to
propertyKey(e, p) == IF p \in DOMAIN e THEN e[p] ELSE StrUndefined

\* !!v of a flag value
ToBoolean(v) == v = "true"

\* effect.getFlag(scope, key)
getFlag(effect, scope, key) ==
    IF scope \in DOMAIN effect.flags
    THEN OptionalGet(effect.flags[scope], key)
    ELSE "undefined"

\* game.i18n.localize(key): the translation, or the key itself where there is none
localize(key) ==
    IF key = <<"D","e","a","d">> THEN <<"T","o","t">> ELSE key

\* variant: only the first element is looked at
includes_first(s, x) == Len(s) > 0 /\ s[1] = x

\* Array.prototype.includes
includes(s, x) == \E i \in 1..Len(s) : s[i] = x

RECURSIVE join(_, _)
join(parts, sep) ==
    IF parts = <<>> THEN <<>>
    ELSE IF Len(parts) = 1 THEN parts[1]
    ELSE parts[1] \o sep \o join(Tail(parts), sep)

NotNull(v) == v # Null

\* Array.prototype.filterJoin(sep): the truthy elements, joined
filterJoin(parts, sep) == join(SelectSeq(parts, NotNull), sep)

\* variant: a status id that has a record keeps it
RECURSIVE assignStatuses_keepFirst(_, _, _)
assignStatuses_keepFirst(obj, ids, overlay) ==
    IF ids = <<>> THEN obj
    ELSE assignStatuses_keepFirst(
             obj @@ (Head(ids) :> [id |-> Head(ids), overlay |-> overlay]),
             Tail(ids), overlay)

\* for (const id of effect.statuses) obj[id] = { id, overlay }
RECURSIVE assignStatuses(_, _, _)
assignStatuses(obj, ids, overlay) ==
    IF ids = <<>> THEN obj
    ELSE assignStatuses((Head(ids) :> [id |-> Head(ids), overlay |-> overlay]) @@ obj,
                        Tail(ids), overlay)

\* actor.effects.reduce(...), from obj on
RECURSIVE reduceStatuses(_, _)
reduceStatuses(obj, effects) ==
    IF effects = <<>> THEN obj
    ELSE reduceStatuses(
             assignStatuses(obj, Head(effects).statuses,
                            ToBoolean(getFlag(Head(effects), "core", "overlay"))),
             Tail(effects))

\* the statuses which are active for the token actor; none without an actor
activeStatuses(tk) ==
    IF "actor" \in DOMAIN tk
    THEN reduceStatuses(EmptyObject, tk.actor.effects)
    ELSE EmptyObject

\* tokenEffects: the document's own effects, then its overlay effect when it has one
tokenEffectsOf(doc) ==
    IF doc.overlayEffect # <<>>
    THEN Append(doc.effects, doc.overlayEffect)
    ELSE doc.effects

\* CONFIG.statusEffects.concat(tokenEffects)
candidatesOf(catalog, doc) ==
    LET tokenEffects == tokenEffectsOf(doc)
    IN  catalog \o [i \in 1..Len(tokenEffects) |-> StringValue(tokenEffects[i])]

\* const src = e.icon ?? e
srcOf(e) == IF "icon" \in DOMAIN e THEN e.icon ELSE e.str

\* the entry built for candidate e
choiceOf(e, statuses, doc) ==
    LET key == propertyKey(e, "id")
        src == srcOf(e)
        hasStatus == key \in DOMAIN statuses
        isActive == (hasStatus /\ statuses[key].id # <<>>) \/ includes(doc.effects, src)
        isOverlay == (hasStatus /\ statuses[key].overlay) \/ doc.overlayEffect = src
    IN  [id |-> IF "id" \in DOMAIN e THEN e.id ELSE <<>>,
         title |-> IF "name" \in DOMAIN e /\ e.name # <<>> THEN localize(e.name) ELSE Null,
         src |-> src,
         isActive |-> isActive,
         isOverlay |-> isOverlay,
         cssClass |-> filterJoin(<<IF isActive THEN ActiveTag ELSE Null,
                                   IF isOverlay THEN OverlayTag ELSE Null>>, <<" ">>)]

\* variant: a later candidate replaces the entry of its key
addChoice_lastWins(obj, e, statuses, doc) ==
    (propertyKey(e, "id") :> choiceOf(e, statuses, doc)) @@ obj

\* one step of the reduce: a candidate whose key is in obj already changes nothing
addChoice(obj, e, statuses, doc) ==
    LET id == propertyKey(e, "id")
    IN  IF id \in DOMAIN obj THEN obj
        ELSE obj @@ (id :> choiceOf(e, statuses, doc))

RECURSIVE reduceChoices(_, _, _, _)
reduceChoices(obj, candidates, statuses, doc) ==
    IF candidates = <<>> THEN obj
    ELSE reduceChoices(addChoice(obj, Head(candidates), statuses, doc),
                       Tail(candidates), statuses, doc)

\* the value getStatusEffectChoices({ token, wrapper, args }) returns
getStatusEffectChoices(s, catalog, tk, wrapperResult) ==
    IF s.modifyStatusEffects = "none" THEN wrapperResult
    ELSE reduceChoices(EmptyObject, candidatesOf(catalog, tk.document),
                       activeStatuses(tk), tk.document)

\* flags of an active effect
OverlayFlag == [core |-> [overlay |-> "true"]]
NoOverlayFlag == [core |-> [overlay |-> "false"]]
NoFlags == [dnd5e |-> [x |-> "true"]]

\* the active effects an actor can carry
ActorEffects ==
    { [statuses |-> <<Dead.id>>, flags |-> OverlayFlag],
      [statuses |-> <<Dead.id>>, flags |-> NoFlags],
      [statuses |-> <<getId(<<"a","b">>), getId(<<"A","b">>)>>, flags |-> NoOverlayFlag],
      [statuses |-> <<getId(<<"A","b">>)>>, flags |-> OverlayFlag] }

\* icon references a token document can hold
DocIcons == {<<"p">>, <<"s">>, <<"t">>}

TokenDocuments ==
    [effects : SeqsUpTo(DocIcons, MaxDocEffects),
     overlayEffect : DocIcons \cup {<<>>}]

Tokens ==
    [document : TokenDocuments]
        \cup [actor : [effects : SeqsUpTo(ActorEffects, MaxActorEffects)],
              document : TokenDocuments]

\* mappings the host's own choice builder returns: keyed by icon
HostChoices ==
    { EmptyObject,
      (<<"s">> :> [id |-> Dead.id, title |-> <<"T","o","t">>, src |-> <<"s">>,
                   isActive |-> TRUE, isOverlay |-> FALSE, cssClass |-> ActiveTag]) }

\* the token whose status effect choices the host will ask for
InitChoices ==
    /\ Configured
    /\ token \in Tokens
    /\ args = <<>>
    /\ wrapperReturn \in HostChoices
    /\ icons = <<>>

GetStatusEffectChoices ==
    /\ pc = "initialize"
    /\ returned' = getStatusEffectChoices(settings, CONFIG_statusEffects, token,
                                          wrapperReturn)
    /\ wrapperCalls' = IF settings.modifyStatusEffects = "none" THEN <<args>> ELSE <<>>
    /\ pc' = "getStatusEffectChoices"
    /\ UNCHANGED <<settings, CONFIG_statusEffects, original, token, args, event,
                   toggleEffectCalls, wrapperReturn, icons, fault>>

NextChoices == Initialize \/ GetStatusEffectChoices

SpecChoices == InitChoices /\ [][NextChoices]_vars

-----------------------------------------------------------------------------
(* refreshStatusIcons *)

\* tokenHud._getStatusEffectChoices(): the host method this module's
\* getStatusEffectChoices is hooked into, for the HUD's token
hudGetStatusEffectChoices(s, catalog, tokenHud, wrapperResult) ==
    getStatusEffectChoices(s, catalog, tokenHud.object, wrapperResult)

\* variant: a class is added but never removed
classListToggle_addOnly(classList, name, force) ==
    IF force THEN classList \cup {name} ELSE classList

\* classList.toggle(name, force)
classListToggle(classList, name, force) ==
    IF force THEN classList \cup {name} ELSE classList \ {name}

\* the body of the loop, for one icon element
refreshIcon(img, statuses) ==
    LET key == propertyKey(img.dataset, "statusId")
        found == key \in DOMAIN statuses
    IN  [img EXCEPT !.classList =
             classListToggle(
                 classListToggle(@, "overlay", found /\ statuses[key].isOverlay),
                 "active", found /\ statuses[key].isActive)]

\* the icon elements after refreshStatusIcons(tokenHud)
refreshStatusIcons(s, catalog, tokenHud, wrapperResult) ==
    LET statuses == hudGetStatusEffectChoices(s, catalog, tokenHud, wrapperResult)
    IN  [i \in 1..Len(tokenHud.children) |-> refreshIcon(tokenHud.children[i], statuses)]

\* the status ids the HUD's icons carry: a catalog id, an id of this module, an icon
\* path, and the empty id of an entry built from a bare icon reference
IconStatusIds == {Dead.id, getId(<<"a","b">>), <<"s">>, <<>>}

IconElements ==
    [dataset : [statusId : IconStatusIds],
     classList : {{"effect-control"} \cup c : c \in SUBSET {"active", "overlay"}}]

\* the tokens whose HUD is refreshed
HudTokens ==
    { [actor |-> [effects |-> << [statuses |-> <<Dead.id, getId(<<"a","b">>)>>,
                                  flags |-> OverlayFlag] >>],
       document |-> [effects |-> <<>>, overlayEffect |-> <<>>]],
      [document |-> [effects |-> << <<"p">>, <<"t">> >>, overlayEffect |-> <<"t">>]] }

\* the token HUD whose icons the host will refresh
InitRefresh ==
    /\ Configured
    /\ token \in HudTokens
    /\ icons \in SeqsUpTo(IconElements, MaxIcons)
    /\ args = << [object |-> token, children |-> icons] >>
    /\ wrapperReturn \in HostChoices

RefreshStatusIcons ==
    /\ pc = "initialize"
    /\ icons' = refreshStatusIcons(settings, CONFIG_statusEffects, args[1], wrapperReturn)
    /\ wrapperCalls' = IF settings.modifyStatusEffects = "none" THEN << <<>> >> ELSE <<>>
    /\ pc' = "refreshStatusIcons"
    /\ UNCHANGED <<settings, CONFIG_statusEffects, original, token, args, event,
                   toggleEffectCalls, wrapperReturn, returned, fault>>

NextRefresh == Initialize \/ RefreshStatusIcons

SpecRefresh == InitRefresh /\ [][NextRefresh]_vars

-----------------------------------------------------------------------------
(* Properties of initialize and _fetchStatusEffects *)

Ids(s) == {s[i].id : i \in 1..Len(s)}

UniqueIds(s) == \A i, j \in 1..Len(s) : s[i].id = s[j].id => i = j

IsResolved(name) == \E e \in Effects : e.name = name

\* the configured names that the finder resolves, in configured order
ResolvedNames == SelectSeq(settings.statusEffectNames, IsResolved)

\* the catalog initialize() starts from: nothing in mode replace
Base == IF settings.modifyStatusEffects = "add" THEN original ELSE <<>>

\* C2: initialize leaves the catalog untouched in mode none, makes it the fetched
\* sequence in mode replace, and the original entries followed by the fetched
\* sequence in mode add.
C2_InitializeByMode ==
    pc = "initialize" =>
        LET fetched == fetchStatusEffects(settings)
            n == Len(original)
        IN  CASE settings.modifyStatusEffects = "none" ->
                     CONFIG_statusEffects = original
              [] settings.modifyStatusEffects = "replace" ->
                     CONFIG_statusEffects = fetched
              [] settings.modifyStatusEffects = "add" ->
                     /\ Len(CONFIG_statusEffects) = n + Len(fetched)
                     /\ \A i \in 1..n : CONFIG_statusEffects[i] = original[i]
                     /\ \A i \in 1..Len(fetched) : CONFIG_statusEffects[n + i] = fetched[i]

C2_Witness ==
    /\ pc = "initialize"
    /\ settings.modifyStatusEffects = "add"
    /\ Len(original) = 2
    /\ Len(CONFIG_statusEffects) = 4
    /\ CONFIG_statusEffects[3].name # CONFIG_statusEffects[4].name

\* C3 as stated: after initialize no two entries of the catalog share an id.
C3_CatalogIdsUnique == pc = "initialize" => UniqueIds(CONFIG_statusEffects)

\* C3 amended: initialize discards nothing, so that in modes replace and add the
\* catalog holds one entry per configured name that resolves (repeats included)
\* behind the entries it starts from, and its ids are pairwise distinct exactly when
\* the resolved names are pairwise distinct and no appended id occurs in the original
\* catalog.
C3_NothingDiscarded ==
    (pc = "initialize" /\ settings.modifyStatusEffects # "none") =>
        LET n == Len(Base)
            m == Len(ResolvedNames)
        IN  /\ Len(CONFIG_statusEffects) = n + m
            /\ UniqueIds(CONFIG_statusEffects) <=>
                  /\ \A i, j \in 1..m : ResolvedNames[i] = ResolvedNames[j] => i = j
                  /\ \A i \in 1..m : CONFIG_statusEffects[n + i].id \notin Ids(Base)

\* a repeated name in mode add on a catalog that already holds its id: three entries share it
C3_Witness ==
    /\ pc = "initialize"
    /\ settings.modifyStatusEffects = "add"
    /\ Len(CONFIG_statusEffects) = 4
    /\ \A i \in 2..4 : CONFIG_statusEffects[i].id = getId(<<"a","b">>)

Orderings(n) ==
    {p \in [1..n -> 1..n] : \A i, j \in 1..n : p[i] = p[j] => i = j}

\* C8: _fetchStatusEffects returns one definition per configured name that resolves and
\* none for the others; unsorted they are in configured order, alphabetical they are
\* ordered case-insensitively by name, equal names in their configured relative order.
C8_FetchOrder ==
    pc = "_fetchStatusEffects" =>
        LET m == Len(ResolvedNames)
            lower(i) == toLowerCase(returned[i].name)
        IN  /\ Len(returned) = m
            /\ settings.statusEffectsSortOrder = "unsorted" =>
                  \A i \in 1..m : returned[i].name = ResolvedNames[i]
            /\ settings.statusEffectsSortOrder = "alphabetical" =>
                  \E p \in Orderings(m) :
                     /\ \A i \in 1..m : returned[i].name = ResolvedNames[p[i]]
                     /\ \A i, j \in 1..m : i < j =>
                           /\ ~StrLess(lower(j), lower(i))
                           /\ lower(i) = lower(j) => p[i] < p[j]
            /\ \A i \in 1..m :
                  returned[i].icon = findEffectByName(returned[i].name).fields.icon

\* ['B', 'z', 'Ab', ...]: the unknown name is dropped and B sorts behind Ab
C8_Witness ==
    /\ pc = "_fetchStatusEffects"
    /\ settings.statusEffectsSortOrder = "alphabetical"
    /\ Len(settings.statusEffectNames) = 3
    /\ settings.statusEffectNames[1] = <<"B">>
    /\ settings.statusEffectNames[2] = UnknownName
    /\ Len(returned) = 2
    /\ returned[1].name = <<"A","b">>
    /\ returned[2].name = <<"B">>

\* C10 as stated: every fetched definition's id is the id derived from its name, also
\* when the serialized fields hold an id key, and every other key has the serialized value.
C10_IdIsDerivedId ==
    pc = "_fetchStatusEffects" =>
        \A i \in 1..Len(returned) :
            LET fields == toObject(findEffectByName(returned[i].name))
            IN  /\ returned[i].id = getId(returned[i].name)
                /\ \A k \in DOMAIN fields \ {"id"} : returned[i][k] = fields[k]

-----------------------------------------------------------------------------
(* Properties of onToggleEffect *)

\* C1: an event whose status id starts with the reserved prefix leads to exactly one
\* toggleEffect call, with the id's remainder as name, an overlay flag that is true only
\* if a second argument with overlay set was given, and the token actor's uuid as sole
\* target; the event's default and propagation are suppressed and the wrapper is not
\* called.  Any other event leads to exactly one wrapper call with the arguments as
\* given and to no toggleEffect call.  (The token has an actor, as the handler requires.)
C1_ToggleDispatch ==
    pc = "onToggleEffect" =>
        LET id == args[1].currentTarget.dataset.statusId
            n == Len(Prefix)
            owned == Len(id) >= n /\ \A i \in 1..n : id[i] = Prefix[i]
        IN  /\ owned =>
                  /\ wrapperCalls = <<>>
                  /\ event.defaultPrevented /\ event.propagationStopped
                  /\ "actor" \in DOMAIN token =>
                        /\ Len(toggleEffectCalls) = 1
                        /\ toggleEffectCalls[1].name = [i \in 1..(Len(id) - n) |-> id[n + i]]
                        /\ toggleEffectCalls[1].options.uuids = <<token.actor.uuid>>
                        /\ toggleEffectCalls[1].options.overlay = "true" <=>
                              /\ Len(args) = 2
                              /\ "overlay" \in DOMAIN args[2]
                              /\ args[2].overlay = "true"
                        /\ ~fault
            /\ ~owned =>
                  /\ wrapperCalls = <<args>>
                  /\ toggleEffectCalls = <<>>
                  /\ event = args[1]
                  /\ ~event.defaultPrevented /\ ~event.propagationStopped
                  /\ ~fault

\* 'Convenient Effect: B' toggled as overlay on the token of actor u1
C1_Witness ==
    /\ pc = "onToggleEffect"
    /\ args[1].currentTarget.dataset.statusId = getId(<<"B">>)
    /\ Len(args) = 2
    /\ toggleEffectCalls =
          << [name |-> <<"B">>,
              options |-> [overlay |-> "true", uuids |-> << <<"u","1">> >>]] >>
    /\ wrapperCalls = <<>>
    /\ event.defaultPrevented

-----------------------------------------------------------------------------
(* Properties of getStatusEffectChoices *)

\* the call returned the module's own mapping
ChoicesBuilt ==
    pc = "getStatusEffectChoices" /\ settings.modifyStatusEffects # "none"

\* the candidate list: catalog, then the document's effects, then its overlay effect
Candidates ==
    LET doc == token.document
        bare == [i \in 1..Len(doc.effects) |-> [str |-> doc.effects[i]]]
    IN  CONFIG_statusEffects \o bare
            \o (IF doc.overlayEffect = <<>> THEN <<>> ELSE <<[str |-> doc.overlayEffect]>>)

\* the icon reference of a candidate
IconOf(c) == IF "icon" \in DOMAIN c THEN c.icon ELSE c.str

\* two candidates are the same effect: the same id, or without ids the same icon
SameEffect(c, d) ==
    IF "id" \in DOMAIN c /\ "id" \in DOMAIN d THEN c.id = d.id
    ELSE IF "id" \in DOMAIN c \/ "id" \in DOMAIN d THEN FALSE
    ELSE c.str = d.str

\* C4 as stated: every key is the id of the candidate it was built from and the id
\* field of its entry, no key is an icon path, and distinct effects among the
\* candidates (bare icon references too) have distinct entries.
C4_KeysAreCanonicalIds ==
    ChoicesBuilt =>
        /\ \A k \in DOMAIN returned : returned[k].id = k
        /\ \A k \in DOMAIN returned :
              \A i \in 1..Len(Candidates) : "str" \in DOMAIN Candidates[i] =>
                  k # Candidates[i].str
        /\ \A i \in 1..Len(Candidates) :
              (\A h \in 1..(i - 1) : ~SameEffect(Candidates[h], Candidates[i])) =>
                  \E k \in DOMAIN returned :
                      /\ returned[k].src = IconOf(Candidates[i])
                      /\ "id" \in DOMAIN Candidates[i] => k = Candidates[i].id
        /\ Cardinality(DOMAIN returned) =
              Cardinality({ CHOOSE j \in 1..Len(Candidates) :
                                SameEffect(Candidates[i], Candidates[j])
                            : i \in 1..Len(Candidates) })

\* C5: for every id among the candidates the mapping has the entry derived from the
\* first candidate with that id; later candidates with the id change nothing.
C5_FirstOccurrenceWins ==
    ChoicesBuilt =>
        \A i \in 1..Len(Candidates) : "id" \in DOMAIN Candidates[i] =>
            LET id == Candidates[i].id
                first == CHOOSE j \in 1..i :
                            /\ "id" \in DOMAIN Candidates[j] /\ Candidates[j].id = id
                            /\ \A h \in 1..(j - 1) :
                                  "id" \in DOMAIN Candidates[h] => Candidates[h].id # id
                c == Candidates[first]
            IN  /\ id \in DOMAIN returned
                /\ returned[id].id = id
                /\ returned[id].src = c.icon
                /\ returned[id].title = localize(c.name)
                /\ returned[id] = choiceOf(c, activeStatuses(token), token.document)

\* the catalog holds two entries of id 'Convenient Effect: ab'; the first one's icon shows
C5_Witness ==
    /\ ChoicesBuilt
    /\ settings.modifyStatusEffects = "add"
    /\ CONFIG_statusEffects[2].id = CONFIG_statusEffects[3].id
    /\ CONFIG_statusEffects[2].icon # CONFIG_statusEffects[3].icon
    /\ returned[CONFIG_statusEffects[3].id].src = CONFIG_statusEffects[2].icon
    /\ token.document.effects = << CONFIG_statusEffects[3].icon >>
    /\ ~returned[CONFIG_statusEffects[3].id].isActive

\* the actor's active effects, none without an actor
ActorEffectsOf(tk) == IF "actor" \in DOMAIN tk THEN tk.actor.effects ELSE <<>>

\* some active effect of the actor declares status id
Declared(id) ==
    \E i \in 1..Len(ActorEffectsOf(token)) :
        \E j \in 1..Len(ActorEffectsOf(token)[i].statuses) :
            ActorEffectsOf(token)[i].statuses[j] = id

\* the active-status record of id has its overlay flag set: the last effect
\* declaring id carries the core overlay flag
RecordOverlay(id) ==
    LET effects == ActorEffectsOf(token)
        declaring == {i \in 1..Len(effects) :
                         \E j \in 1..Len(effects[i].statuses) : effects[i].statuses[j] = id}
    IN  /\ declaring # {}
        /\ LET last == CHOOSE i \in declaring : \A h \in declaring : h <= i
           IN  /\ "core" \in DOMAIN effects[last].flags
               /\ "overlay" \in DOMAIN effects[last].flags.core
               /\ effects[last].flags.core.overlay = "true"

\* the candidates an entry is built from: the first of each key
FirstOfKey(i) ==
    \A h \in 1..(i - 1) :
        propertyKey(Candidates[h], "id") # propertyKey(Candidates[i], "id")

\* C6: an entry is active iff an active effect of the actor declares the candidate's id
\* or the document's effect list holds the candidate's icon; it is overlay iff the
\* id's active-status record has the overlay flag or the document's overlay effect is the
\* candidate's icon; cssClass is the space-joined tags 'active' and 'overlay'.
C6_ActiveOverlayFlags ==
    ChoicesBuilt =>
        \A i \in 1..Len(Candidates) : FirstOfKey(i) =>
            LET c == Candidates[i]
                entry == returned[propertyKey(c, "id")]
                hasId == "id" \in DOMAIN c
            IN  /\ entry.isActive <=>
                      \/ hasId /\ Declared(c.id)
                      \/ \E j \in 1..Len(token.document.effects) :
                             token.document.effects[j] = IconOf(c)
                /\ entry.isOverlay <=>
                      \/ hasId /\ RecordOverlay(c.id)
                      \/ token.document.overlayEffect = IconOf(c)
                /\ entry.cssClass =
                      CASE entry.isActive /\ entry.isOverlay ->
                               <<"a","c","t","i","v","e"," ","o","v","e","r","l","a","y">>
                        [] entry.isActive /\ ~entry.isOverlay -> <<"a","c","t","i","v","e">>
                        [] ~entry.isActive /\ entry.isOverlay -> <<"o","v","e","r","l","a","y">>
                        [] OTHER -> <<>>

\* an active effect declaring 'dead' with the overlay flag: 'active overlay' for 'dead'
C6_Witness ==
    /\ ChoicesBuilt
    /\ ActorEffectsOf(token) = << [statuses |-> <<Dead.id>>, flags |-> OverlayFlag] >>
    /\ token.document.effects = <<>>
    /\ token.document.overlayEffect = <<>>
    /\ Dead.id \in DOMAIN returned
    /\ returned[Dead.id].isActive
    /\ returned[Dead.id].isOverlay
    /\ returned[Dead.id].cssClass = ActiveTag \o <<" ">> \o OverlayTag

\* C9 as stated: without an actor every entry is inactive, non-overlay, cssClass empty.
C9_NoActorAllInactive ==
    (ChoicesBuilt /\ "actor" \notin DOMAIN token) =>
        \A k \in DOMAIN returned :
            /\ ~returned[k].isActive
            /\ ~returned[k].isOverlay
            /\ returned[k].cssClass = <<>>

\* C9 amended: without an actor the active-status map is empty, and an entry is
\* active exactly when the document's effect list holds its icon reference and overlay
\* exactly when the document's overlay effect is its icon reference; with neither,
\* it is inactive and non-overlay with an empty cssClass.
C9_NoActorOnlyDocumentEffects ==
    (ChoicesBuilt /\ "actor" \notin DOMAIN token) =>
        /\ activeStatuses(token) = EmptyObject
        /\ \A k \in DOMAIN returned :
              /\ returned[k].isActive <=>
                    \E j \in 1..Len(token.document.effects) :
                        token.document.effects[j] = returned[k].src
              /\ returned[k].isOverlay <=> token.document.overlayEffect = returned[k].src
              /\ (~returned[k].isActive /\ ~returned[k].isOverlay) =>
                    returned[k].cssClass = <<>>

\* no actor, yet 'Convenient Effect: ab' is active: the document lists its icon
C9_Witness ==
    /\ ChoicesBuilt
    /\ "actor" \notin DOMAIN token
    /\ settings.modifyStatusEffects = "replace"
    /\ token.document.effects = << <<"p">> >>
    /\ returned[getId(<<"a","b">>)].isActive
    /\ ~returned[getId(<<"a","b">>)].isOverlay

-----------------------------------------------------------------------------
(* Properties of refreshStatusIcons *)

\* C7: after the refresh an icon has class 'active' iff the choice mapping has an entry
\* under the icon's status id that is active, and class 'overlay' iff that entry is
\* overlay; an icon whose status id is no key has neither, whatever it had before.
C7_IconsFollowChoices ==
    pc = "refreshStatusIcons" =>
        LET statuses == getStatusEffectChoices(settings, CONFIG_statusEffects, token,
                                               wrapperReturn)
            before == args[1].children
        IN  /\ Len(icons) = Len(before)
            /\ \A i \in 1..Len(icons) :
                  LET id == before[i].dataset.statusId
                  IN  /\ icons[i].dataset = before[i].dataset
                      /\ "active" \in icons[i].classList <=>
                            (id \in DOMAIN statuses /\ statuses[id].isActive)
                      /\ "overlay" \in icons[i].classList <=>
                            (id \in DOMAIN statuses /\ statuses[id].isOverlay)
                      /\ id \notin DOMAIN statuses =>
                            icons[i].classList \cap {"active", "overlay"} = {}
                      /\ icons[i].classList \ {"active", "overlay"} =
                            before[i].classList \ {"active", "overlay"}

\* an icon of no key loses both classes while the icon of 'dead' gains them
C7_Witness ==
    /\ pc = "refreshStatusIcons"
    /\ settings.modifyStatusEffects = "add"
    /\ "actor" \in DOMAIN token
    /\ Len(icons) = 2
    /\ args[1].children[1].dataset.statusId = <<"s">>
    /\ args[1].children[1].classList = {"effect-control", "active", "overlay"}
    /\ icons[1].classList = {"effect-control"}
    /\ args[1].children[2].dataset.statusId = Dead.id
    /\ args[1].children[2].classList = {"effect-control"}
    /\ icons[2].classList = {"effect-control", "active", "overlay"}

====
